---- MODULE Spec2Model ----
(***************************************************************************)
(* Model of the IntegrationKit build controller of camel-k:                *)
(*   pkg/controller/integrationkit/initialize.go  (src/unnamed/part_000)   *)
(*   pkg/controller/integrationkit/build.go                                *)
(* One IntegrationKit K is reconciled.  A reconcile pass reads K from the  *)
(* store (Reconcile) and then runs the handler of the first action whose   *)
(* CanHandle accepts the kit that was read.  The Build of K is written by  *)
(* an external executor; Integrations are advanced by informIntegrations.  *)
(* Go strings are TLA+ strings, "" is the unset value; nil error is "".    *)
(***************************************************************************)
EXTENDS Integers, Sequences, FiniteSets, TLC

VARIABLES
    platformReady, \* an IntegrationPlatform exists in the kit's namespace
    kit,           \* the stored IntegrationKit (spec, status, resourceVersion)
    build,         \* the stored Build with the kit's namespace and name
    integrations,  \* the stored Integrations, in list order
    pc,            \* "idle" | "handle": position of the reconcile pass
    snap,          \* the kit object handed to Action.Handle (read at pass start)
    result,        \* outcome of the last completed pass (error returned, effects)
    faults,        \* store / collaborator failures injected so far
    edits,         \* external edits of the kit's status.phase so far
    env            \* the Environment the trait catalog is applied to

vars == <<platformReady, kit, build, integrations, pc, snap, result, faults, edits,
          env>>

----------------------------------------------------------------------------
(* Bounds *)

\* number of failing store / collaborator calls in one behaviour
MaxFaults == 2
\* number of external edits of the kit's phase in one behaviour
MaxEdits == 1

----------------------------------------------------------------------------
(* Phase constants of pkg/apis/camel/v1alpha1, as used by the handlers *)

IntegrationKitPhaseNone == ""
IntegrationKitPhaseBuildSubmitted == "Build Submitted"
IntegrationKitPhaseBuildRunning == "Build Running"
IntegrationKitPhaseReady == "Ready"
IntegrationKitPhaseError == "Error"

KitPhases == {IntegrationKitPhaseNone, IntegrationKitPhaseBuildSubmitted,
              IntegrationKitPhaseBuildRunning, IntegrationKitPhaseReady,
              IntegrationKitPhaseError}

BuildPhaseNone == ""
BuildPhasePending == "Pending"
BuildPhaseRunning == "Running"
BuildPhaseSucceeded == "Succeeded"
BuildPhaseError == "Error"
BuildPhaseInterrupted == "Interrupted"

IntegrationPhaseResolvingKit == "Resolving Kit"
IntegrationPhaseBuildingKit == "Building Kit"
IntegrationPhaseDeploying == "Deploying"

----------------------------------------------------------------------------
(* The resources of the scenario *)

KitNamespace == "ns1"
KitName == "kit"

\* spec.image values a kit is created with: none, or a pre-built image
SpecImages == {"", "img:0"}

\* artifacts a build reports (id, location, target)
Artifact1 == [id |-> "a", location |-> "/tmp/a", target |-> "t"]
Artifact2 == [id |-> "b", location |-> "/tmp/b", target |-> "u"]

\* what the executor writes into Build.status when a build succeeds
BuildResults ==
    { [baseImage |-> "base:1", image |-> "img:1", publicImage |-> "pub:1",
       artifacts |-> <<Artifact1, Artifact2>>],
      [baseImage |-> "base:2", image |-> "img:2", publicImage |-> "",
       artifacts |-> <<Artifact2>>] }

\* failure details the executor writes when a build fails
BuildFailures == {"build failed"}

EmptyBuildStatus ==
    [phase |-> BuildPhaseNone, baseImage |-> "", image |-> "", publicImage |-> "",
     artifacts |-> <<>>, failure |-> ""]

NoBuild == [exists |-> FALSE, owner |-> "", status |-> EmptyBuildStatus]

EmptyKitStatus ==
    [phase |-> IntegrationKitPhaseNone, baseImage |-> "", image |-> "",
     publicImage |-> "", artifacts |-> <<>>, digest |-> <<>>, failure |-> ""]

NewKit(image) ==
    [namespace |-> KitNamespace, name |-> KitName,
     spec |-> [image |-> image, computed |-> FALSE],
     status |-> EmptyKitStatus, resourceVersion |-> 1]

\* the pass holds no kit object while it is idle
NoKit == [NewKit("") EXCEPT !.resourceVersion = 0]

\* no pass has completed yet
NoResult ==
    [action |-> "", err |-> "", waited |-> FALSE, observed |-> "none",
     deleted |-> FALSE, created |-> FALSE, buildTouched |-> FALSE]

\* Integrations of the store, in the order List returns them, with the phase
\* they start in.  The second and fourth reference the kit; the first
\* references a kit whose name only contains the kit's name; the third lives
\* in another namespace.
IntegrationRefs ==
    << [namespace |-> "ns1", name |-> "i1", kit |-> "kit-2",
        phase |-> IntegrationPhaseBuildingKit],
       [namespace |-> "ns1", name |-> "i2", kit |-> "kit",
        phase |-> IntegrationPhaseBuildingKit],
       [namespace |-> "ns2", name |-> "i3", kit |-> "kit",
        phase |-> IntegrationPhaseBuildingKit],
       [namespace |-> "ns1", name |-> "i4", kit |-> "kit",
        phase |-> IntegrationPhaseDeploying] >>

NewIntegration(ref) ==
    [namespace |-> ref.namespace, name |-> ref.name,
     status |-> [kit |-> ref.kit, phase |-> ref.phase]]

----------------------------------------------------------------------------
(* Pure parts of the handlers *)

\* CanHandle that takes a Ready kit for a new one
InitializeCanHandle_AlsoReady(k) ==
    k.status.phase \in {IntegrationKitPhaseNone, IntegrationKitPhaseReady}

\* initializeAction.CanHandle
InitializeCanHandle(k) == k.status.phase = IntegrationKitPhaseNone

\* CanHandle that also accepts a kit whose phase is unset
BuildCanHandle_AlsoUnset(k) ==
    k.status.phase \in {IntegrationKitPhaseNone,
                        IntegrationKitPhaseBuildSubmitted,
                        IntegrationKitPhaseBuildRunning}

\* buildAction.CanHandle
BuildCanHandle(k) ==
    \/ k.status.phase = IntegrationKitPhaseBuildSubmitted
    \/ k.status.phase = IntegrationKitPhaseBuildRunning

\* digest.ComputeForIntegrationKit: a hash of the kit's spec, never empty
ComputeForIntegrationKit(k) == <<"v", k.spec.image, k.spec.computed>>

\* InitializeStatus with the wrong phase constant for a kit that must be built
InitializeStatus_Running(target) ==
    LET phased ==
            IF target.spec.image = ""
            THEN [target.status EXCEPT !.phase = IntegrationKitPhaseBuildRunning]
            ELSE [target.status EXCEPT !.phase = IntegrationKitPhaseReady,
                                       !.image = target.spec.image]
    IN  [phased EXCEPT !.digest = ComputeForIntegrationKit(target)]

\* InitializeStatus that forgets to store the digest
InitializeStatus_NoDigest(target) ==
    IF target.spec.image = ""
    THEN [target.status EXCEPT !.phase = IntegrationKitPhaseBuildSubmitted]
    ELSE [target.status EXCEPT !.phase = IntegrationKitPhaseReady,
                               !.image = target.spec.image]

\* InitializeStatus that submits every kit to a build, pre-built image or not
InitializeStatus_AlwaysBuild(target) ==
    [target.status EXCEPT !.phase = IntegrationKitPhaseBuildSubmitted,
                          !.digest = ComputeForIntegrationKit(target)]

\* initializeAction.Handle: the status written for a kit, from its spec
InitializeStatus(target) ==
    LET phased ==
            IF target.spec.image = ""
            THEN [target.status EXCEPT !.phase = IntegrationKitPhaseBuildSubmitted]
            ELSE [target.status EXCEPT !.phase = IntegrationKitPhaseReady,
                                       !.image = target.spec.image]
    IN  [phased EXCEPT !.digest = ComputeForIntegrationKit(target)]

\* ShouldBuild that also treats a Build in the unset phase as stale
ShouldBuild_UnsetIsStale(found, phase) ==
    \/ ~found
    \/ phase = BuildPhaseNone
    \/ phase = BuildPhaseError
    \/ phase = BuildPhaseInterrupted
    \/ phase = BuildPhaseSucceeded

\* ShouldBuild that rebuilds whatever is not Running
ShouldBuild_NotRunning(found, phase) ==
    \/ ~found
    \/ phase # BuildPhaseRunning

\* ShouldBuild that replaces a finished Build but does nothing without one
ShouldBuild_OnlyReplace(found, phase) ==
    /\ found
    /\ phase \in {BuildPhaseError, BuildPhaseInterrupted, BuildPhaseSucceeded}

\* handleBuildSubmitted: the condition under which a Build is (re)created
ShouldBuild(found, phase) ==
    \/ ~found
    \/ phase = BuildPhaseError
    \/ phase = BuildPhaseInterrupted
    \/ phase = BuildPhaseSucceeded

\* a new Build that is stored with a status of the controller's making
NewBuild_Pending(k) ==
    [exists |-> TRUE, owner |-> k.name,
     status |-> [EmptyBuildStatus EXCEPT !.phase = BuildPhasePending]]

\* handleBuildSubmitted: the Build object that is created; the kit is its owner
NewBuild(k) == [exists |-> TRUE, owner |-> k.name, status |-> EmptyBuildStatus]

\* StripLocation that copies the artifacts as they are
StripLocation_Keep(artifacts) == artifacts

\* handleBuildRunning, case Succeeded: the artifacts copied without location
StripLocation(artifacts) ==
    [i \in DOMAIN artifacts |->
        [id |-> artifacts[i].id, location |-> "", target |-> artifacts[i].target]]

\* ReadyStatus with the image taken from the wrong field of the Build
ReadyStatus_SwapImages(status, b) ==
    [status EXCEPT !.baseImage = b.baseImage,
                   !.image = b.publicImage,
                   !.publicImage = b.publicImage,
                   !.phase = IntegrationKitPhaseReady,
                   !.artifacts = StripLocation(b.artifacts)]

\* handleBuildRunning, case Succeeded: the status written to the kit
ReadyStatus(status, b) ==
    [status EXCEPT !.baseImage = b.baseImage,
                   !.image = b.image,
                   !.publicImage = b.publicImage,
                   !.phase = IntegrationKitPhaseReady,
                   !.artifacts = StripLocation(b.artifacts)]

\* status of a failed build that drops the failure detail
ErrorStatus_NoFailure(status, b) ==
    [status EXCEPT !.phase = IntegrationKitPhaseError]

\* handleBuildRunning, case Error / Interrupted: the status written to the kit
ErrorStatus(status, b) ==
    [status EXCEPT !.failure = b.failure, !.phase = IntegrationKitPhaseError]

\* informIntegrations: the Integrations List returns for the kit's namespace
Listed(integration, k) == integration.namespace = k.namespace

\* MatchesKit that accepts a kit reference starting with the kit's name
MatchesKit_Prefix(integration, k) ==
    \/ integration.status.kit = k.name
    \/ <<k.name, integration.status.kit>> \in {<<"kit", "kit-2">>}

\* informIntegrations: the Integrations the loop does not skip
MatchesKit(integration, k) == integration.status.kit = k.name

\* fan-out that goes on with the next Integration after a failed update
InformIntegrations_SkipFailed(ints, k, failAt) ==
    [i \in DOMAIN ints |->
        IF /\ Listed(ints[i], k)
           /\ MatchesKit(ints[i], k)
           /\ i # failAt
        THEN [ints[i] EXCEPT !.status.phase = IntegrationPhaseResolvingKit]
        ELSE ints[i]]

\* fan-out that rewrites the whole status of an Integration
InformIntegrations_NewStatus(ints, k, failAt) ==
    [i \in DOMAIN ints |->
        IF /\ Listed(ints[i], k)
           /\ MatchesKit(ints[i], k)
           /\ (failAt = 0 \/ i < failAt)
        THEN [ints[i] EXCEPT
                !.status = [phase |-> IntegrationPhaseResolvingKit, kit |-> ""]]
        ELSE ints[i]]

\* informIntegrations: the store's Integrations after the loop.  failAt = 0: every
\* update succeeds; failAt = i: the update of the i-th Integration fails and
\* the loop returns there.
InformIntegrations(ints, k, failAt) ==
    [i \in DOMAIN ints |->
        IF /\ Listed(ints[i], k)
           /\ MatchesKit(ints[i], k)
           /\ (failAt = 0 \/ i < failAt)
        THEN [ints[i] EXCEPT !.status.phase = IntegrationPhaseResolvingKit]
        ELSE ints[i]]

\* client.Update(target), client.Status().Update(target): optimistic
\* concurrency, the write is rejected when the stored kit changed after target
\* was read
UpdateConflict(stored, target) ==
    stored.resourceVersion # target.resourceVersion

\* the stored kit after an accepted write of a new status
WithStatus(stored, status) ==
    IF stored.status = status
    THEN stored
    ELSE [stored EXCEPT !.status = status, !.resourceVersion = @ + 1]

\* the stored kit after an accepted write of a new spec
WithSpec(stored, spec) ==
    IF stored.spec = spec
    THEN stored
    ELSE [stored EXCEPT !.spec = spec, !.resourceVersion = @ + 1]

\* the outcome recorded for a completed pass: the action that ran, the error
\* it returned, whether it only waited for the platform, the Build phase it
\* fetched ("absent": not found, "none": nothing fetched), whether it deleted
\* and created a Build; buildTouched is set when the executor writes the
\* Build afterwards
Outcome(action, err, waited, observed, deleted, created) ==
    [action |-> action, err |-> err, waited |-> waited, observed |-> observed,
     deleted |-> deleted, created |-> created, buildTouched |-> FALSE]

\* a call may fail only while the failure budget lasts
FaultAllowed(fault) == fault = "none" \/ faults < MaxFaults

CountFault(fault) == IF fault = "none" THEN faults ELSE faults + 1

----------------------------------------------------------------------------
(* Pipeline composition: the builder trait of the trait catalog *)

IntegrationPlatformClusterOpenShift == "OpenShift"
IntegrationPlatformClusterKubernetes == "Kubernetes"

IntegrationPlatformBuildPublishStrategyS2I == "S2I"
IntegrationPlatformBuildPublishStrategyKaniko == "Kaniko"

Clusters ==
    {IntegrationPlatformClusterOpenShift, IntegrationPlatformClusterKubernetes}

PublishStrategies ==
    {IntegrationPlatformBuildPublishStrategyS2I,
     IntegrationPlatformBuildPublishStrategyKaniko}

\* the phase tag of the Step that publishes the image
ApplicationPublishPhase == "ApplicationPublish"

\* the Steps every build runs before publishing, in execution order
DefaultSteps ==
    << [id |-> "steps/GenerateProject", phase |-> "ProjectGeneration"],
       [id |-> "steps/GenerateProjectSettings", phase |-> "ProjectGeneration"],
       [id |-> "steps/InjectDependencies", phase |-> "ProjectGeneration"],
       [id |-> "steps/SanitizeDependencies", phase |-> "ProjectGeneration"],
       [id |-> "steps/ComputeDependencies", phase |-> "ProjectBuild"],
       [id |-> "steps/IncrementalPackager", phase |-> "ApplicationPackage"] >>

S2iPublisher == [id |-> "s2i/Publisher", phase |-> ApplicationPublishPhase]
KanikoPublisher == [id |-> "kaniko/Publisher", phase |-> ApplicationPublishPhase]

\* the number of Steps the tests expect of a composed pipeline
ExpectedSteps == 7

\* an Environment as createBuilderTestEnv builds it; k = NoKit stands for a
\* nil IntegrationKit
NewEnvironment(cluster, strategy, hasIntegration, k) ==
    [cluster |-> cluster, strategy |-> strategy,
     hasIntegration |-> hasIntegration, kit |-> k,
     steps |-> <<>>, builder |-> FALSE, applied |-> FALSE]

\* no Environment under composition
NoEnvironment ==
    NewEnvironment(IntegrationPlatformClusterKubernetes,
                   IntegrationPlatformBuildPublishStrategyKaniko, FALSE, NoKit)

\* the kits an Environment is composed for: any phase, with or without image
EnvironmentKits ==
    {[NewKit(image) EXCEPT !.status.phase = phase] :
        image \in SpecImages, phase \in KitPhases}

\* the Environments the catalog is applied to
Environments ==
    {NewEnvironment(cluster, strategy, hasIntegration, k) :
        cluster \in Clusters, strategy \in PublishStrategies,
        hasIntegration \in BOOLEAN, k \in {NoKit} \cup EnvironmentKits}

\* builder trait that takes part for every kit, whatever its phase
BuilderConfigure_AnyKit(e) == e.kit # NoKit

\* builder trait: it takes part only for a kit in phase BuildSubmitted
BuilderConfigure(e) ==
    /\ e.kit # NoKit
    /\ e.kit.status.phase = IntegrationKitPhaseBuildSubmitted

\* publisher chosen by the cluster flavor alone, S2I being left out on
\* OpenShift
PublisherSteps_None(cluster, strategy) ==
    IF cluster = IntegrationPlatformClusterOpenShift
    THEN <<>>
    ELSE <<KanikoPublisher>>

\* the publisher of the platform: S2I for the S2I strategy (OpenShift),
\* otherwise Kaniko (Kubernetes)
PublisherSteps(cluster, strategy) ==
    IF strategy = IntegrationPlatformBuildPublishStrategyS2I
    THEN <<S2iPublisher>>
    ELSE <<KanikoPublisher>>

\* Catalog.apply: run the traits that take part; the builder trait appends
\* the default Steps and the publisher
ApplyTraits(e) ==
    IF BuilderConfigure(e)
    THEN [e EXCEPT !.steps = @ \o DefaultSteps
                                 \o PublisherSteps(e.cluster, e.strategy),
                   !.builder = TRUE,
                   !.applied = TRUE]
    ELSE [e EXCEPT !.applied = TRUE]

----------------------------------------------------------------------------
(* Initial state *)

Init ==
    /\ platformReady = FALSE
    /\ \E image \in SpecImages : kit = NewKit(image)
    /\ build = NoBuild
    /\ integrations =
          [i \in DOMAIN IntegrationRefs |-> NewIntegration(IntegrationRefs[i])]
    /\ pc = "idle"
    /\ snap = NoKit
    /\ result = NoResult
    /\ faults = 0
    /\ edits = 0
    /\ env = NoEnvironment

----------------------------------------------------------------------------
(* Environment *)

\* the platform of the namespace is created
PlatformCreated ==
    /\ ~platformReady
    /\ platformReady' = TRUE
    /\ UNCHANGED <<kit, build, integrations, pc, snap, result, faults, edits, env>>

\* order in which the executor moves a Build through its phases
BuildRank(phase) ==
    CASE phase = BuildPhaseNone -> 0
      [] phase = BuildPhasePending -> 1
      [] phase = BuildPhaseRunning -> 2
      [] OTHER -> 3

\* the external executor writes the status of the Build
ExecutorAdvance(phase, res, failure) ==
    /\ build.exists
    /\ BuildRank(phase) > BuildRank(build.status.phase)
    /\ build' =
         [build EXCEPT !.status =
            IF phase = BuildPhaseSucceeded
            THEN [@ EXCEPT !.phase = phase, !.baseImage = res.baseImage,
                           !.image = res.image, !.publicImage = res.publicImage,
                           !.artifacts = res.artifacts]
            ELSE IF phase \in {BuildPhaseError, BuildPhaseInterrupted}
            THEN [@ EXCEPT !.phase = phase, !.failure = failure]
            ELSE [@ EXCEPT !.phase = phase]]
    /\ result' = [result EXCEPT !.buildTouched = TRUE]
    /\ UNCHANGED <<platformReady, kit, integrations, pc, snap, faults, edits, env>>

\* the watch loop starts a pass: it reads the kit
Reconcile ==
    /\ pc = "idle"
    /\ pc' = "handle"
    /\ snap' = kit
    /\ UNCHANGED <<platformReady, kit, build, integrations, result, faults, edits, env>>

\* no action accepts the kit: the pass ends without effect
NoAction ==
    /\ pc = "handle"
    /\ ~InitializeCanHandle(snap)
    /\ ~BuildCanHandle(snap)
    /\ pc' = "idle"
    /\ snap' = NoKit
    /\ result' = Outcome("no-action", "", FALSE, "none", FALSE, FALSE)
    /\ UNCHANGED <<platformReady, kit, build, integrations, faults, edits, env>>

----------------------------------------------------------------------------
(* The handlers.  fault names the call of the pass that fails ("none": no   *)
(* call fails); a handler returns at its first failing call.  The error a  *)
(* pass returns is recorded as "" (nil), as the name of the failing call,  *)
(* or as "not found", "conflict" (the store rejected a stale write) or     *)
(* "phase mismatch" (the handler's own check of the kit's phase).          *)

\* Handle that goes on without a platform
PlatformMissing_Ignored(ready, fault) == FALSE

\* initializeAction.Handle: GetCurrentPlatform returns an error, because no
\* platform exists yet or because the lookup fails
PlatformMissing(ready, fault) == ~ready \/ fault = "platform"

\* initializeAction.Handle.  computed: whether trait.Apply leaves computed
\* metadata in the spec of target.
InitializeHandle(fault, computed) ==
    /\ pc = "handle"
    /\ InitializeCanHandle(snap)
    /\ FaultAllowed(fault)
    /\ LET waiting  == PlatformMissing(platformReady, fault)
           target   == [snap EXCEPT !.spec.computed = computed]
           conflict == UpdateConflict(kit, target)
           updated  == WithSpec(kit, target.spec)
           final    == WithStatus(updated, InitializeStatus(updated))
       IN  /\ fault \in
                IF ~platformReady THEN {"none"}
                ELSE IF conflict THEN {"none", "platform", "apply"}
                ELSE {"none", "platform", "apply", "update", "digest", "status"}
           /\ kit' =
                IF waiting \/ fault \in {"apply", "update"} \/ conflict THEN kit
                ELSE IF fault \in {"digest", "status"} THEN updated
                ELSE final
           /\ result' =
                Outcome("initialize",
                        IF waiting THEN ""
                        ELSE IF fault = "apply" THEN "apply"
                        ELSE IF conflict THEN "conflict"
                        ELSE IF fault = "none" THEN ""
                        ELSE fault,
                        waiting, "none", FALSE, FALSE)
    /\ faults' = CountFault(fault)
    /\ pc' = "idle"
    /\ snap' = NoKit
    /\ UNCHANGED <<platformReady, build, integrations, edits, env>>

\* BuildIsRunning that accepts a Build the executor has merely picked up
BuildIsRunning_Started(b) ==
    b.status.phase \in {BuildPhasePending, BuildPhaseRunning}

\* handleBuildSubmitted: the test that advances the kit to BuildRunning
BuildIsRunning(b) == b.status.phase = BuildPhaseRunning

\* (re)creation that deletes the old Build before the pipeline is composed
BuildStoreAfter_DeleteFirst(b, local, trigger, fault) ==
    IF trigger /\ fault \in {"apply", "catalog", "create"} THEN NoBuild
    ELSE IF trigger /\ fault \in {"none", "status"} THEN local
    ELSE b

\* handleBuildSubmitted: the stored Build after the block that (re)creates
\* it.  The calls run in the order Apply, catalog test, Delete, Create: the
\* Build is gone when Create fails, replaced by local when Create succeeds,
\* and untouched when an earlier call fails or nothing is triggered.
BuildStoreAfter(b, local, trigger, fault) ==
    IF trigger /\ fault = "create" THEN NoBuild
    ELSE IF trigger /\ fault \in {"none", "status"} THEN local
    ELSE b

\* buildAction.Handle, kit in BuildSubmitted: buildAction.handleBuildSubmitted
handleBuildSubmitted(fault) ==
    /\ pc = "handle"
    /\ ~InitializeCanHandle(snap)
    /\ BuildCanHandle(snap)
    /\ snap.status.phase = IntegrationKitPhaseBuildSubmitted
    /\ FaultAllowed(fault)
    /\ LET found    == build.exists
           trigger  == ShouldBuild(found, build.status.phase)
           \* the variable build after the block that (re)creates the Build
           local    == IF trigger THEN NewBuild(snap) ELSE build
           running  == BuildIsRunning(local)
           conflict == UpdateConflict(kit, snap)
           early    == IF trigger THEN {"get", "apply", "catalog", "delete", "create"}
                       ELSE {"get"}
       IN  /\ fault \in
                {"none"} \cup early
                \cup (IF running /\ ~conflict THEN {"status"} ELSE {})
           /\ build' = BuildStoreAfter(build, local, trigger, fault)
           /\ kit' =
                IF running /\ ~conflict /\ fault = "none"
                THEN WithStatus(kit, [snap.status EXCEPT
                                        !.phase = IntegrationKitPhaseBuildRunning])
                ELSE kit
           /\ result' =
                Outcome("build-submitted",
                        IF fault \in early THEN fault
                        ELSE IF running /\ conflict THEN "conflict"
                        ELSE IF fault = "none" THEN ""
                        ELSE fault,
                        FALSE,
                        IF fault = "get" THEN "none"
                        ELSE IF found THEN build.status.phase ELSE "absent",
                        trigger /\ found /\ fault \in {"none", "create", "status"},
                        trigger /\ fault \in {"none", "status"})
    /\ faults' = CountFault(fault)
    /\ pc' = "idle"
    /\ snap' = NoKit
    /\ UNCHANGED <<platformReady, integrations, edits, env>>

\* Get of the Build that takes a missing Build for an empty one, as
\* handleBuildSubmitted does
GetBuildError_Tolerant(b) == ""

\* handleBuildRunning: the error of the Build's Get; a Build that is not
\* found is an error like any other
GetBuildError(b) == IF b.exists THEN "" ELSE "not found"

\* fan-out that is run before the kit's status is written
Informs_BeforeWrite(succeeded, writes, fault) ==
    succeeded /\ fault # "get"

\* handleBuildRunning, case Succeeded: informIntegrations is called after
\* the status update of the kit, when that update returned no error
Informs(succeeded, writes, fault) ==
    succeeded /\ writes /\ fault \notin {"get", "status"}

\* buildAction.Handle, kit in BuildRunning: buildAction.handleBuildRunning.
\* failAt: the Integration whose update fails when fault = "integration".
handleBuildRunning(fault, failAt) ==
    /\ pc = "handle"
    /\ ~InitializeCanHandle(snap)
    /\ BuildCanHandle(snap)
    /\ snap.status.phase # IntegrationKitPhaseBuildSubmitted
    /\ snap.status.phase = IntegrationKitPhaseBuildRunning
    /\ FaultAllowed(fault)
    /\ LET phase     == build.status.phase
           succeeded == build.exists /\ phase = BuildPhaseSucceeded
           failed    == build.exists
                        /\ phase \in {BuildPhaseError, BuildPhaseInterrupted}
           target    == snap
           mismatch  == target.status.phase # IntegrationKitPhaseBuildRunning
           conflict  == UpdateConflict(kit, target)
           writes    == (succeeded \/ failed) /\ ~mismatch /\ ~conflict
           informs   == Informs(succeeded, writes, fault)
       IN  /\ fault \in
                IF succeeded /\ writes
                THEN {"none", "get", "status", "list", "integration"}
                ELSE IF writes THEN {"none", "get", "status"}
                ELSE {"none", "get"}
           /\ failAt \in
                IF fault = "integration"
                THEN {i \in DOMAIN integrations :
                        Listed(integrations[i], target)
                        /\ MatchesKit(integrations[i], target)}
                ELSE {0}
           /\ kit' =
                IF writes /\ fault \notin {"get", "status"}
                THEN WithStatus(kit,
                        IF succeeded THEN ReadyStatus(target.status, build.status)
                        ELSE ErrorStatus(target.status, build.status))
                ELSE kit
           /\ integrations' =
                IF informs /\ fault # "list"
                THEN InformIntegrations(integrations, target, failAt)
                ELSE integrations
           /\ result' =
                Outcome("build-running",
                        IF fault = "get" THEN "get"
                        ELSE IF GetBuildError(build) # "" THEN GetBuildError(build)
                        ELSE IF (succeeded \/ failed) /\ mismatch THEN "phase mismatch"
                        ELSE IF (succeeded \/ failed) /\ conflict THEN "conflict"
                        ELSE IF fault = "none" THEN ""
                        ELSE fault,
                        FALSE,
                        IF fault = "get" THEN "none"
                        ELSE IF build.exists THEN phase ELSE "absent",
                        FALSE, FALSE)
    /\ faults' = CountFault(fault)
    /\ pc' = "idle"
    /\ snap' = NoKit
    /\ UNCHANGED <<platformReady, build, edits, env>>

\* an external actor (a user, another controller) rewrites the kit's phase
ExternalEdit(phase) ==
    /\ edits < MaxEdits
    /\ phase # kit.status.phase
    /\ kit' = WithStatus(kit, [kit.status EXCEPT !.phase = phase])
    /\ edits' = edits + 1
    /\ UNCHANGED <<platformReady, build, integrations, pc, snap, result, faults, env>>

----------------------------------------------------------------------------
(* Specifications *)

Faults == {"none", "platform", "apply", "update", "digest", "status", "get",
           "catalog", "delete", "create", "list", "integration"}

Next ==
    \/ PlatformCreated
    \/ \E phase \in {BuildPhasePending, BuildPhaseRunning, BuildPhaseSucceeded,
                     BuildPhaseError, BuildPhaseInterrupted},
          res \in BuildResults, failure \in BuildFailures :
          ExecutorAdvance(phase, res, failure)
    \/ Reconcile
    \/ NoAction
    \/ \E fault \in Faults, computed \in BOOLEAN : InitializeHandle(fault, computed)
    \/ \E fault \in Faults : handleBuildSubmitted(fault)
    \/ \E fault \in Faults, failAt \in 0..Len(IntegrationRefs) :
          handleBuildRunning(fault, failAt)

\* passes of the controller, the executor and failing calls
Spec == Init /\ [][Next]_vars

NextExt ==
    \/ Next
    \/ \E phase \in KitPhases : ExternalEdit(phase)

\* Spec together with external edits of the kit's phase
SpecExt == Init /\ [][NextExt]_vars

\* Spec with the scheduling of the outer loop: a kit whose pass failed or
\* left work to do is reconciled again, and a pass that has started completes
SpecLive ==
    /\ Spec
    /\ WF_vars(Reconcile)
    /\ WF_vars(NoAction)
    /\ WF_vars(\E fault \in Faults, computed \in BOOLEAN :
                  InitializeHandle(fault, computed))
    /\ WF_vars(\E fault \in Faults : handleBuildSubmitted(fault))
    /\ WF_vars(\E fault \in Faults, failAt \in 0..Len(IntegrationRefs) :
                  handleBuildRunning(fault, failAt))

\* the executor takes a Build one phase further: unset, Pending, Running,
\* then Succeeded, Error or Interrupted
ExecutorStep(phase, res, failure) ==
    /\ BuildRank(phase) = BuildRank(build.status.phase) + 1
    /\ ExecutorAdvance(phase, res, failure)

\* the steps of a run in which every call of a pass succeeds and the
\* executor takes every Build through Running
NextProgress ==
    \/ PlatformCreated
    \/ \E phase \in {BuildPhasePending, BuildPhaseRunning, BuildPhaseSucceeded,
                     BuildPhaseError, BuildPhaseInterrupted},
          res \in BuildResults, failure \in BuildFailures :
          ExecutorStep(phase, res, failure)
    \/ Reconcile
    \/ NoAction
    \/ \E computed \in BOOLEAN : InitializeHandle("none", computed)
    \/ handleBuildSubmitted("none")
    \/ handleBuildRunning("none", 0)

\* passes scheduled fairly, store operations succeeding, and an executor that
\* drives every Build it is given to a terminal phase, at its own pace
SpecProgress ==
    /\ Init
    /\ [][NextProgress]_vars
    /\ WF_vars(PlatformCreated)
    /\ WF_vars(\E phase \in {BuildPhasePending, BuildPhaseRunning,
                              BuildPhaseSucceeded, BuildPhaseError,
                              BuildPhaseInterrupted},
                  res \in BuildResults, failure \in BuildFailures :
                  ExecutorStep(phase, res, failure))
    /\ WF_vars(Reconcile)
    /\ WF_vars(NoAction)
    /\ WF_vars(\E computed \in BOOLEAN : InitializeHandle("none", computed))
    /\ WF_vars(handleBuildSubmitted("none"))
    /\ WF_vars(handleBuildRunning("none", 0))

\* the trait catalog is applied to the Environment
Apply ==
    /\ ~env.applied
    /\ env' = ApplyTraits(env)
    /\ UNCHANGED <<platformReady, kit, build, integrations, pc, snap, result,
                   faults, edits>>

\* pipeline composition on its own: every Environment, applied once
InitCompose ==
    /\ env \in Environments
    /\ platformReady = TRUE
    /\ kit = NewKit("")
    /\ build = NoBuild
    /\ integrations =
          [i \in DOMAIN IntegrationRefs |-> NewIntegration(IntegrationRefs[i])]
    /\ pc = "idle"
    /\ snap = NoKit
    /\ result = NoResult
    /\ faults = 0
    /\ edits = 0

SpecCompose == InitCompose /\ [][Apply]_vars

----------------------------------------------------------------------------
(* Properties *)

\* a step in which a handler (or the dispatcher without a matching action)
\* completes a pass
HandlerStep == pc = "handle" /\ pc' = "idle"

\* the edges of the kit's phase state machine
AllowedEdges ==
    { <<IntegrationKitPhaseNone, IntegrationKitPhaseBuildSubmitted>>,
      <<IntegrationKitPhaseNone, IntegrationKitPhaseReady>>,
      <<IntegrationKitPhaseBuildSubmitted, IntegrationKitPhaseBuildRunning>>,
      <<IntegrationKitPhaseBuildRunning, IntegrationKitPhaseReady>>,
      <<IntegrationKitPhaseBuildRunning, IntegrationKitPhaseError>> }

\* C1: every change a pass (InitializeAction or BuildAction) makes to the
\* stored phase of the kit is one of the five edges "" -> BuildSubmitted,
\* "" -> Ready, BuildSubmitted -> BuildRunning, BuildRunning -> Ready,
\* BuildRunning -> Error, also when the executor and external edits of the
\* kit interleave with the passes.
C1_PhaseEdges ==
    [][ (HandlerStep /\ kit'.status.phase # kit.status.phase)
        => <<kit.status.phase, kit'.status.phase>> \in AllowedEdges ]_vars

\* C1 witness: a pass has moved the kit from BuildRunning to Error after an
\* external edit took place.
C1_Witness ==
    /\ result.action = "build-running"
    /\ result.err = ""
    /\ result.observed = BuildPhaseInterrupted
    /\ kit.status.phase = IntegrationKitPhaseError
    /\ edits > 0

\* C2: after a pass of InitializeAction that found the platform and returned
\* no error, the kit's phase is Ready when spec.image is set and
\* BuildSubmitted when it is not, and the status digest is populated.
C2_InitializeResult ==
    (result.action = "initialize" /\ result.err = "" /\ ~result.waited)
    => /\ kit.status.phase =
            IF kit.spec.image = "" THEN IntegrationKitPhaseBuildSubmitted
            ELSE IntegrationKitPhaseReady
       /\ kit.status.digest # <<>>

\* C2 witness: InitializeAction has run for a kit without pre-built image.
C2_Witness ==
    /\ result.action = "initialize"
    /\ result.err = ""
    /\ ~result.waited
    /\ kit.spec.image = ""
    /\ kit.status.phase = IntegrationKitPhaseBuildSubmitted

\* C3: a kit with a pre-built image (spec.image set) is only ever in the unset
\* phase or in Ready, in Ready its status.image equals spec.image, and no
\* pass ever creates or deletes a Build for it.
C3_PrebuiltImage ==
    kit.spec.image # ""
    => /\ kit.status.phase \in {IntegrationKitPhaseNone, IntegrationKitPhaseReady}
       /\ (kit.status.phase = IntegrationKitPhaseReady
             => kit.status.image = kit.spec.image)
       /\ ~build.exists
       /\ ~result.created
       /\ ~result.deleted

\* C3 witness: a kit with a pre-built image is Ready and a later pass has
\* been dispatched for it.
C3_Witness ==
    /\ kit.spec.image # ""
    /\ kit.status.phase = IntegrationKitPhaseReady
    /\ kit.status.image = kit.spec.image
    /\ result.action = "no-action"

TerminalBuildPhases == {BuildPhaseError, BuildPhaseInterrupted, BuildPhaseSucceeded}

\* a step in which handleBuildSubmitted completes a pass
SubmittedStep ==
    HandlerStep /\ snap.status.phase = IntegrationKitPhaseBuildSubmitted

\* a step in which handleBuildRunning completes a pass
RunningStep ==
    HandlerStep /\ snap.status.phase = IntegrationKitPhaseBuildRunning

\* C4: when handleBuildSubmitted runs twice in a row and the executor did not
\* write the Build in between, the two passes create at most one Build; when
\* the first pass returned no error, the second neither deletes nor creates
\* a Build.
C4_SubmittedIdempotent ==
    [][ (SubmittedStep /\ result.action = "build-submitted" /\ ~result.buildTouched)
        => /\ ~(result.created /\ build' # build)
           /\ (result.err = "" => build' = build) ]_vars

\* C4 witness: a first pass of handleBuildSubmitted created the Build, the
\* executor has not written it, and the second pass has been dispatched.
C4_Witness ==
    /\ pc = "handle"
    /\ snap.status.phase = IntegrationKitPhaseBuildSubmitted
    /\ result.action = "build-submitted"
    /\ result.created
    /\ result.err = ""
    /\ ~result.buildTouched

\* C5: a pass changes the stored Build (deletes it, creates it) only in
\* handleBuildSubmitted and only when the Build is absent or its phase is
\* Error, Interrupted or Succeeded; a Build in phase Running, unset or
\* Pending is left as it is.
C5_OneBuildInFlight ==
    [][ (HandlerStep /\ build' # build)
        => /\ snap.status.phase = IntegrationKitPhaseBuildSubmitted
           /\ (~build.exists \/ build.status.phase \in TerminalBuildPhases) ]_vars

\* C5 witness: handleBuildSubmitted found the Build in a non-terminal phase
\* other than Running and left it in place.
C5_Witness ==
    /\ result.action = "build-submitted"
    /\ result.err = ""
    /\ result.observed = BuildPhasePending
    /\ ~result.buildTouched
    /\ build.exists
    /\ build.status.phase = BuildPhasePending

\* C6: a kit in phase Ready carries no artifact with a non-empty location.
C6_NoArtifactLocation ==
    kit.status.phase = IntegrationKitPhaseReady
    => \A i \in DOMAIN kit.status.artifacts : kit.status.artifacts[i].location = ""

\* C6 witness: the kit is Ready with the artifacts of a Build that reported
\* non-empty locations.
C6_Witness ==
    /\ kit.status.phase = IntegrationKitPhaseReady
    /\ Len(kit.status.artifacts) = 2
    /\ build.exists
    /\ \A i \in DOMAIN build.status.artifacts :
          build.status.artifacts[i].location # ""

\* C7: after handleBuildRunning found the Build Succeeded and its status
\* write was accepted, the stored kit has phase Ready, the base image, image
\* and public image of the Build, and the Build's artifacts in the same order
\* with id and target preserved.
C7_ReadyStatusCopied ==
    ( /\ result.action = "build-running"
      /\ result.observed = BuildPhaseSucceeded
      /\ result.err \in {"", "list", "integration"}
      /\ ~result.buildTouched )
    => /\ kit.status.phase = IntegrationKitPhaseReady
       /\ kit.status.baseImage = build.status.baseImage
       /\ kit.status.image = build.status.image
       /\ kit.status.publicImage = build.status.publicImage
       /\ Len(kit.status.artifacts) = Len(build.status.artifacts)
       /\ \A i \in DOMAIN build.status.artifacts :
             /\ kit.status.artifacts[i].id = build.status.artifacts[i].id
             /\ kit.status.artifacts[i].target = build.status.artifacts[i].target

\* C7 witness: the kit was finalized from a Succeeded Build with two
\* artifacts and an image that differs from its public image.
C7_Witness ==
    /\ result.action = "build-running"
    /\ result.observed = BuildPhaseSucceeded
    /\ result.err = ""
    /\ ~result.buildTouched
    /\ kit.status.image = "img:1"
    /\ Len(kit.status.artifacts) = 2

\* C8: a step changes an Integration only if the Integration is in the kit's
\* namespace and its status.kit equals the kit's name.
C8_FanOutFrame ==
    [][ \A i \in DOMAIN integrations :
          integrations'[i] # integrations[i]
          => /\ integrations[i].namespace = kit.namespace
             /\ integrations[i].status.kit = kit.name ]_vars

\* C8 witness: fan-out has advanced the Integrations of the kit and left the
\* Integration of kit-2 and the Integration of the other namespace alone.
C8_Witness ==
    /\ result.action = "build-running"
    /\ result.err = ""
    /\ integrations[2].status.phase = IntegrationPhaseResolvingKit
    /\ integrations[4].status.phase = IntegrationPhaseResolvingKit
    /\ integrations[1].status.phase = IntegrationPhaseBuildingKit
    /\ integrations[3].status.phase = IntegrationPhaseBuildingKit

\* C9: when the kit handed to handleBuildRunning is in BuildRunning, the
\* stored kit has been moved to another phase by an external edit, and the
\* Build that is fetched is Succeeded, Error or Interrupted, the pass returns
\* the handler's phase-mismatch error (expected and found phase) and does not
\* write the kit.
C9_MismatchReported ==
    [][ ( /\ RunningStep
          /\ kit.status.phase # IntegrationKitPhaseBuildRunning
          /\ build.exists
          /\ build.status.phase \in TerminalBuildPhases
          /\ result'.observed = build.status.phase )
        => /\ result'.err = "phase mismatch"
           /\ kit' = kit ]_vars

\* C10: a pass of handleBuildSubmitted leaves the kit in BuildSubmitted or
\* moves it to BuildRunning; it moves it only when the Build it fetched is
\* Running, and it does move it then unless the pass returns an error; with
\* no Build stored the kit stays in BuildSubmitted and a pass that returns no
\* error leaves a new Build in the unset phase.
C10_RunningObserved ==
    [][ SubmittedStep
        => /\ kit'.status.phase \in {IntegrationKitPhaseBuildSubmitted,
                                    IntegrationKitPhaseBuildRunning}
           /\ (kit'.status.phase = IntegrationKitPhaseBuildRunning
                 => build.exists /\ build.status.phase = BuildPhaseRunning)
           /\ (build.exists /\ build.status.phase = BuildPhaseRunning
               /\ result'.err = ""
                 => kit'.status.phase = IntegrationKitPhaseBuildRunning)
           /\ (~build.exists /\ result'.err = ""
                 => build'.exists /\ build'.status.phase = BuildPhaseNone) ]_vars

\* C10 witness: the kit reached BuildRunning in a pass that fetched the Build
\* in phase Running.
C10_Witness ==
    /\ result.action = "build-submitted"
    /\ result.err = ""
    /\ result.observed = BuildPhaseRunning
    /\ kit.status.phase = IntegrationKitPhaseBuildRunning

\* C11: whenever the kit is in BuildSubmitted and no Build is stored, as
\* after a pass that deleted the Build and failed to create the new one, a
\* later pass finds the Build absent and creates it: a Build eventually
\* exists again.
C11_BuildRecreated ==
    (kit.status.phase = IntegrationKitPhaseBuildSubmitted /\ ~build.exists)
    ~> build.exists

\* C11 witness: a pass deleted the finished Build and failed to create the
\* new one; the kit is in BuildSubmitted without a Build.
C11_Witness ==
    /\ result.action = "build-submitted"
    /\ result.err = "create"
    /\ result.deleted
    /\ ~build.exists
    /\ kit.status.phase = IntegrationKitPhaseBuildSubmitted

\* C12: composition yields an empty Step sequence, the builder trait not
\* taking part, whenever the Environment has no kit or the kit's phase is
\* unset, for every cluster flavor and publish strategy.
C12_NoStepsWithoutKit ==
    (/\ env.applied
     /\ \/ env.kit = NoKit
        \/ env.kit.status.phase = IntegrationKitPhaseNone)
    => /\ env.steps = <<>>
       /\ ~env.builder

\* C12 witness: the catalog was applied on OpenShift with S2I to an
\* Environment without a kit and left the Step sequence empty.
C12_Witness ==
    /\ env.applied
    /\ env.kit = NoKit
    /\ env.cluster = IntegrationPlatformClusterOpenShift
    /\ env.strategy = IntegrationPlatformBuildPublishStrategyS2I
    /\ env.steps = <<>>

\* the positions of the Steps tagged ApplicationPublish
PublishSteps(steps) ==
    {i \in DOMAIN steps : steps[i].phase = ApplicationPublishPhase}

\* C13: for a kit in BuildSubmitted the composed sequence has exactly one
\* Step tagged ApplicationPublish: the Kaniko publisher on Kubernetes with
\* Kaniko, the S2I publisher on OpenShift with S2I, and the same number of
\* Steps (the seven the tests expect) in both cases.
C13_OnePublisher ==
    (/\ env.applied
     /\ env.kit # NoKit
     /\ env.kit.status.phase = IntegrationKitPhaseBuildSubmitted)
    => /\ env.builder
       /\ Cardinality(PublishSteps(env.steps)) = 1
       /\ Len(env.steps) = ExpectedSteps
       /\ (/\ env.cluster = IntegrationPlatformClusterKubernetes
           /\ env.strategy = IntegrationPlatformBuildPublishStrategyKaniko)
          => \A i \in PublishSteps(env.steps) : env.steps[i] = KanikoPublisher
       /\ (/\ env.cluster = IntegrationPlatformClusterOpenShift
           /\ env.strategy = IntegrationPlatformBuildPublishStrategyS2I)
          => \A i \in PublishSteps(env.steps) : env.steps[i] = S2iPublisher

\* C13 witness: the pipeline of a kit in BuildSubmitted on OpenShift with
\* S2I ends with the S2I publisher.
C13_Witness ==
    /\ env.applied
    /\ env.kit # NoKit
    /\ env.kit.status.phase = IntegrationKitPhaseBuildSubmitted
    /\ env.cluster = IntegrationPlatformClusterOpenShift
    /\ env.strategy = IntegrationPlatformBuildPublishStrategyS2I
    /\ env.steps[Len(env.steps)] = S2iPublisher

\* C14: a handleBuildRunning pass that fetched the Build in Error or
\* Interrupted modifies no Integration and returns no error, unless the
\* status write itself fails; when it returns no error the kit has the
\* Build's failure detail and phase Error and is otherwise unchanged; when
\* the write fails the kit is unchanged.
C14_BuildFailureRecorded ==
    [][(/\ RunningStep
        /\ result'.observed \in {BuildPhaseError, BuildPhaseInterrupted})
       => /\ integrations' = integrations
          /\ result'.err \in {"", "status"}
          /\ result'.err = "" =>
                kit'.status =
                    [kit.status EXCEPT !.failure = build.status.failure,
                                       !.phase = IntegrationKitPhaseError]
          /\ result'.err = "status" => kit' = kit]_vars

\* C14 witness: a pass observed an interrupted Build and recorded its
\* failure in the kit, without error.
C14_Witness ==
    /\ result.action = "build-running"
    /\ result.observed = BuildPhaseInterrupted
    /\ result.err = ""
    /\ kit.status.phase = IntegrationKitPhaseError
    /\ kit.status.failure \in BuildFailures
    /\ \A i \in DOMAIN integrations :
          integrations[i].status.phase # IntegrationPhaseResolvingKit

\* C15: a handleBuildRunning pass that finds no Build returns an error and
\* leaves the kit, every Integration and the Build store unchanged.
C15_MissingBuildIsError ==
    [][(RunningStep /\ ~build.exists)
       => /\ result'.err # ""
          /\ kit' = kit
          /\ integrations' = integrations
          /\ build' = build]_vars

\* C15 witness: a pass for a kit in BuildRunning found no Build and returned
\* the not-found error; the kit is still in BuildRunning.
C15_Witness ==
    /\ result.action = "build-running"
    /\ result.err = "not found"
    /\ result.observed = "absent"
    /\ ~build.exists
    /\ kit.status.phase = IntegrationKitPhaseBuildRunning

\* C16: while no platform exists, a pass of initializeAction.Handle changes
\* neither the kit (spec, status, phase) nor the Build nor any Integration
\* and returns no error; the kit keeps its unset phase, so initializeAction
\* and no other action matches it on the next pass.
C16_WaitsForPlatform ==
    [][(HandlerStep /\ InitializeCanHandle(snap) /\ ~platformReady)
       => /\ kit' = kit
          /\ build' = build
          /\ integrations' = integrations
          /\ result'.err = ""
          /\ result'.waited
          /\ InitializeCanHandle(kit')
          /\ ~BuildCanHandle(kit')]_vars

\* C16 witness: initializeAction.Handle ran without a platform and returned
\* nil; the kit is as it was created.
C16_Witness ==
    /\ ~platformReady
    /\ result.action = "initialize"
    /\ result.waited
    /\ result.err = ""
    /\ \E image \in SpecImages : kit = NewKit(image)
    /\ ~build.exists

\* the phases in which the kit's build has ended
TerminalKitPhases == {IntegrationKitPhaseReady, IntegrationKitPhaseError}

\* C17: at most one of initializeAction.CanHandle and buildAction.CanHandle
\* accepts the kit of a pass, and the handler that runs is the one of the
\* accepting action: initializeAction for the unset phase, buildAction for
\* BuildSubmitted and BuildRunning; for Ready and Error neither accepts and
\* the pass ends without running a handler.
C17_DispatchPartition ==
    [][HandlerStep
       => /\ ~(InitializeCanHandle(snap) /\ BuildCanHandle(snap))
          /\ InitializeCanHandle(snap)
                <=> snap.status.phase = IntegrationKitPhaseNone
          /\ BuildCanHandle(snap)
                <=> snap.status.phase \in {IntegrationKitPhaseBuildSubmitted,
                                           IntegrationKitPhaseBuildRunning}
          /\ result'.action = "initialize" <=> InitializeCanHandle(snap)
          /\ result'.action \in {"build-submitted", "build-running"}
                <=> BuildCanHandle(snap)
          /\ snap.status.phase \in TerminalKitPhases
                => /\ ~InitializeCanHandle(snap)
                   /\ ~BuildCanHandle(snap)
                   /\ result'.action = "no-action"
                   /\ result'.err = ""]_vars

\* C17 witness: a pass for a kit in Error ended without any action.
C17_Witness ==
    /\ result.action = "no-action"
    /\ result.err = ""
    /\ kit.status.phase = IntegrationKitPhaseError

\* C18: a pass that starts with the kit in Ready or Error changes neither
\* the kit nor the Build nor any Integration, in none of its steps; this
\* holds also while external actors edit the kit's phase.
C18_TerminalFrame ==
    [][(/\ pc' # pc
        /\ (IF pc = "idle" THEN kit ELSE snap).status.phase
              \in TerminalKitPhases)
       => /\ kit' = kit
          /\ build' = build
          /\ integrations' = integrations]_vars

\* C18 witness: after the kit became Ready and its Integrations were
\* informed, a further pass ran and ended without any action.
C18_Witness ==
    /\ result.action = "no-action"
    /\ kit.status.phase = IntegrationKitPhaseReady
    /\ build.exists
    /\ build.status.phase = BuildPhaseSucceeded
    /\ \E i \in DOMAIN integrations :
          integrations[i].status.phase = IntegrationPhaseResolvingKit

\* the Integrations informIntegrations updates for kit k, by list position
Matching(ints, k) ==
    {i \in DOMAIN ints : Listed(ints[i], k) /\ MatchesKit(ints[i], k)}

\* C19: when the update of a matching Integration fails, the pass returns
\* that error and the stored kit is Ready; the matching Integrations listed
\* before the failing one are in ResolvingKit, the failing one and every
\* Integration after it are as they were.
C19_FanOutStopsAtError ==
    [][(RunningStep /\ result'.err = "integration")
       => /\ kit'.status.phase = IntegrationKitPhaseReady
          /\ \E j \in Matching(integrations, snap) :
                \A i \in DOMAIN integrations :
                   /\ (i < j /\ i \in Matching(integrations, snap))
                        => integrations'[i].status.phase
                              = IntegrationPhaseResolvingKit
                   /\ (i >= j \/ i \notin Matching(integrations, snap))
                        => integrations'[i] = integrations[i]]_vars

\* C19 witness: the update of the second matching Integration failed; the
\* first is in ResolvingKit, the second still Deploying, the kit Ready.
C19_Witness ==
    /\ result.action = "build-running"
    /\ result.err = "integration"
    /\ kit.status.phase = IntegrationKitPhaseReady
    /\ integrations[2].status.phase = IntegrationPhaseResolvingKit
    /\ integrations[4].status.phase = IntegrationPhaseDeploying

\* C20: a step changes an Integration only in its status.phase, which
\* becomes ResolvingKit; a complete fan-out leaves every matching
\* Integration in ResolvingKit whatever its phase was, and fan-out applied
\* to its own result changes nothing.
C20_FanOutIdempotent ==
    [][/\ \A i \in DOMAIN integrations :
             integrations'[i] # integrations[i]
             => integrations'[i] =
                   [integrations[i] EXCEPT
                      !.status.phase = IntegrationPhaseResolvingKit]
       /\ (/\ RunningStep
           /\ result'.observed = BuildPhaseSucceeded
           /\ result'.err = "")
          => /\ integrations' = InformIntegrations(integrations, snap, 0)
             /\ \A i \in Matching(integrations, snap) :
                   /\ integrations'[i].status.phase
                         = IntegrationPhaseResolvingKit
                   /\ integrations'[i].status.kit = integrations[i].status.kit
             /\ InformIntegrations(integrations', snap, 0) = integrations'
       ]_vars

\* C20 witness: fan-out ran in a pass that followed an external edit of the
\* kit's phase: the Integrations that were Building Kit and Deploying are
\* both in ResolvingKit and still refer to the kit.
C20_Witness ==
    /\ result.action = "build-running"
    /\ result.observed = BuildPhaseSucceeded
    /\ result.err = ""
    /\ edits > 0
    /\ \A i \in Matching(integrations, kit) :
          /\ integrations[i].status.phase = IntegrationPhaseResolvingKit
          /\ integrations[i].status.kit = KitName
    /\ Matching(integrations, kit) = {2, 4}

\* C21: a handleBuildSubmitted pass in which pipeline composition fails, or
\* whose Environment has no resolved catalog, returns that error with the
\* store as it was: the Build is neither deleted nor created, no Integration
\* changes, and the kit is unchanged, in phase BuildSubmitted.
C21_ComposeFailsBeforeWrites ==
    [][(SubmittedStep /\ result'.err \in {"apply", "catalog"})
       => /\ build' = build
          /\ ~result'.deleted
          /\ ~result'.created
          /\ kit' = kit
          /\ kit'.status.phase = IntegrationKitPhaseBuildSubmitted
          /\ integrations' = integrations]_vars

\* C21 witness: the Environment of a pass that found a finished Build had no
\* catalog; the pass returned the error, the finished Build is still stored.
C21_Witness ==
    /\ result.action = "build-submitted"
    /\ result.err = "catalog"
    /\ ~result.buildTouched
    /\ result.observed \in TerminalBuildPhases
    /\ build.exists
    /\ build.status.phase = result.observed
    /\ kit.status.phase = IntegrationKitPhaseBuildSubmitted

\* C22: the status of the stored Build changes only in steps of the
\* executor, never in a step of a pass; the one effect a pass has on it is
\* the replacement of the Build by a new object, whose status is empty.
C22_BuildStatusReadOnly ==
    [][(build'.exists /\ build'.status # build.status)
       => \/ pc' = pc
          \/ /\ SubmittedStep
             /\ result'.created
             /\ build'.status = EmptyBuildStatus]_vars

\* C22 witness: a pass replaced a Succeeded Build; the new Build carries the
\* empty status, nothing of the old one.
C22_Witness ==
    /\ result.action = "build-submitted"
    /\ result.observed = BuildPhaseSucceeded
    /\ result.deleted
    /\ result.created
    /\ ~result.buildTouched
    /\ build.exists
    /\ build.status = EmptyBuildStatus

\* C23: with fair passes, no failing call and an executor that takes every
\* Build through Running to a terminal phase, a kit in BuildSubmitted
\* eventually reaches Ready or Error.
C23_BuildTerminates ==
    (kit.status.phase = IntegrationKitPhaseBuildSubmitted)
    ~> (kit.status.phase \in TerminalKitPhases)

\* C24: once the kit is Ready through a Succeeded Build, every Integration
\* of its namespace that refers to it is eventually in ResolvingKit, also
\* when an update of the fan-out fails and the kit is reconciled again.
C24_FanOutCompletes ==
    (kit.status.phase = IntegrationKitPhaseReady /\ build.exists)
    ~> (\A i \in Matching(integrations, kit) :
           integrations[i].status.phase = IntegrationPhaseResolvingKit)

\* C25: without external edits, an Integration is in ResolvingKit only
\* while the stored kit is Ready, in every state; and a handleBuildRunning
\* pass whose status write of the kit fails modifies no Integration.
C25_ReadyBeforeFanOut ==
    [][/\ \A i \in DOMAIN integrations :
             integrations'[i].status.phase = IntegrationPhaseResolvingKit
             => /\ kit'.status.phase = IntegrationKitPhaseReady
                /\ i \in Matching(integrations', kit')
       /\ (RunningStep /\ result'.err = "status")
          => /\ integrations' = integrations
             /\ kit' = kit]_vars

\* C25 witness: the status write of a pass that fetched a Succeeded Build
\* failed; the kit is still in BuildRunning and no Integration has moved.
C25_Witness ==
    /\ result.action = "build-running"
    /\ result.observed = BuildPhaseSucceeded
    /\ result.err = "status"
    /\ kit.status.phase = IntegrationKitPhaseBuildRunning
    /\ \A i \in DOMAIN integrations :
          integrations[i].status.phase # IntegrationPhaseResolvingKit

====
